---- MODULE Spec2Model ----
(***************************************************************************)
(* Inter-agent messaging bus of workflow-bolt: SharedDevComm (dedup gate,  *)
(* channel routing, task locks, rate limiter), DevCommV2.send (retry and   *)
(* disk fallback), the consumer-group replier and the request/response     *)
(* correlator.  The broker (Redis) is modelled by its documented command   *)
(* semantics: SET NX EX, GET, INCR, EXPIRE, XADD, XREAD, XREADGROUP, XACK. *)
(* The clock now is in seconds, the event bus clock ms in milliseconds.     *)
(* Stream entry ids are positions in the stream.                           *)
(***************************************************************************)
EXTENDS Integers, Sequences, FiniteSets, TLC

\* ---------------------------------------------------------------- bounds
MaxTicks == 2
MaxClaims == 3
MaxSends == 2
MaxV2Sends == 2
MaxBusSends == 2
MaxRead == 2
MaxConnErrors == 1
MaxOver == 1
MaxRateChecks == 1
MaxWindowTicks == 1
MaxPresTicks == 5
MaxOnlineCalls == 1
MaxListenLen == 3
MaxListenReads == 3
MaxTtlTicks == 2
MaxDirect == 7
MaxBusLen == 4
MaxMsTicks == 5

\* ------------------------------------------------------- program constants
DEDUP_TTL == 60
MAX_MESSAGE_SIZE == 4096
MAX_SUBJECT == 100
RETRY == 3
RATE_LIMIT == 100
RATE_WINDOW == 3600
PRESENCE_TTL == 300
PRESENCE_REFRESH == 240
LISTEN_COUNT == 10

\* The clock step of the ttl model: the ttl of the messages that carry one.
TtlStep == 60
PresenceStep == 60
NoTimer == -1
MaxRateSends == RATE_LIMIT + MaxOver

Agents == {"claude", "gemini"}
Callers == Agents
Tasks == {"T1"}
RateAgent == "claude"
Bodies == {"b1"}
\* The clock is observed at multiples of half a dedup window: two reads are
\* equal, less than a window apart, or at least a window apart.
TickStep == DEDUP_TTL \div 2
TickSteps == {TickStep}
Durations == {TickStep, 2 * TickStep}

General == "dev:channels:general"
Inbox(r) == "dev:channels:" \o r
Channels == {General} \cup {Inbox(r) : r \in Agents}

\* DevCommV2
STREAM_KEY == "dev:workflow-bolt:stream"

\* A thread's own log.
Threads == {"th1"}
ThreadLog(t) == "dev:threads:" \o t

AllChannels == Channels \cup {STREAM_KEY} \cup {ThreadLog(t) : t \in Threads}

VARIABLES
    now, nticks,          \* the clock (seconds) and the clock steps taken
    streams,              \* the broker's streams: channel -> entries in append order
    locks, dedup, rate,   \* the broker's keys: task locks, dedup keys, rate counters
    pc, loc, calls,       \* SharedDevComm: each agent's call in progress; all calls
    rchecks,              \* SharedDevComm: the check_rate_limit calls
    snd, sends, backup,   \* DevCommV2.send in progress; all sends; the fallback file
    expires,              \* the expiries set on keys of the broker by EXPIRE
    bus,                  \* the event bus streams: stream -> entries in append order
    grp, rp, rlog,        \* the consumer group, the replier's position, what it did
    wt, ms, mticks,       \* the waiting requester; the clock (ms) and its steps
    presence, proc,       \* the presence keys; each agent process and its timer
    oa, oaret,            \* get_online_agents in progress; what the calls returned
    ls, stop,             \* DevCommV2.listen in progress; the stop signal raised for the listener
    il,                   \* SharedDevComm.listen_to_my_inbox in progress
    ib                    \* the last read_agent_inbox call and what it returned

devVars == <<locks, dedup, rate, pc, loc, calls, rchecks>>
v2Vars == <<snd, sends, backup, expires>>
busVars == <<bus, grp, rp, rlog, wt, ms, mticks>>
presVars == <<presence, proc, oa, oaret>>
lsnVars == <<ls, stop, il>>
ibVars == <<ib>>
vars == <<now, nticks, streams, devVars, v2Vars, busVars, presVars, lsnVars, ibVars>>
notDev == <<v2Vars, busVars, presVars, lsnVars, ibVars>>
notV2 == <<nticks, devVars, busVars, presVars, lsnVars, ibVars>>
notBus == <<now, nticks, streams, devVars, v2Vars, presVars, lsnVars, ibVars>>
notPres == <<streams, devVars, v2Vars, busVars, lsnVars, ibVars>>
notLsn == <<now, nticks, devVars, v2Vars, busVars, presVars, ibVars>>

\* ------------------------------------------------------------ SharedDevComm
\* The message dict; an absent key is "" / <<>> / FALSE.
Msg0 ==
    [from |-> "", to |-> "", sent_at |-> 0, msg_id |-> <<>>, hash |-> <<>>,
     copy |-> FALSE, type |-> "", body |-> "", task_id |-> "", thread_id |-> ""]

Loc0 == [op |-> "", call |-> 0, msg |-> Msg0, chan |-> "", stage |-> 0, task |-> ""]

Call0 ==
    [op |-> "", agent |-> "", to |-> "", body |-> "", task |-> "", dur |-> 0,
     at |-> 0, status |-> "run", acquired |-> FALSE, lost |-> FALSE, reported |-> <<>>,
     skipped |-> {}]

\* json.dumps(message, sort_keys=True): the dict's items in key order.  The
\* 'hash' key of a dict that was hashed before is one of the items.
canonical(m) ==
    <<m.body, m.copy, m.from, m.hash, m.msg_id, m.sent_at, m.task_id, m.thread_id, m.to,
      m.type>>

\* hashlib.sha256(...).hexdigest()[:8], taken as collision-free on the messages
\* of a run: equal digests exactly for equal canonical dumps.
hash_of(m) == canonical(m)

\* A key with an expiry exists while now < exp.
DedupLive(h) == \E d \in dedup : d.h = h /\ now < d.exp

\* locks[t] is <<>> while lock_key does not exist, else <<[val, exp]>>.
LockLive(t) == locks[t] # <<>> /\ now < locks[t][1].exp

\* client.set(lock_key, value, nx=True, ex=duration): written only if absent.
LockSetAlways(t, val, ttl) ==
    [ok |-> TRUE, store |-> [locks EXCEPT ![t] = <<[val |-> val, exp |-> now + ttl]>>]]

LockSetNx(t, val, ttl) ==
    IF LockLive(t)
    THEN [ok |-> FALSE, store |-> locks]
    ELSE [ok |-> TRUE, store |-> [locks EXCEPT ![t] = <<[val |-> val, exp |-> now + ttl]>>]]

Returned(cs, k, st) == [cs EXCEPT ![k].status = st]

Idle(a, max) == pc[a] = "idle" /\ Len(calls) < max

\* send_broadcast: message.update(from, to="all", sent_at), then _send_message.
SendBroadcast(a, b) ==
    /\ calls' = Append(calls, [Call0 EXCEPT !.op = "broadcast", !.agent = a,
                               !.to = "all", !.body = b, !.at = now])
    /\ loc' = [loc EXCEPT ![a] =
                 [Loc0 EXCEPT !.op = "broadcast", !.call = Len(calls) + 1,
                    !.chan = General, !.stage = 1,
                    !.msg = [Msg0 EXCEPT !.from = a, !.to = "all", !.sent_at = now,
                               !.type = "alert", !.body = b]]]
    /\ pc' = [pc EXCEPT ![a] = "sm_set"]
    /\ UNCHANGED <<now, nticks, locks, dedup, rate, rchecks, streams, notDev>>

send_broadcast(a) ==
    /\ Idle(a, MaxSends)
    /\ \E b \in Bodies : SendBroadcast(a, b)

\* send_broadcast of a message that differs from every earlier one: its body
\* is the number of the call.
send_broadcast_numbered(a) ==
    /\ Idle(a, MaxRateSends)
    /\ SendBroadcast(a, ToString(Len(calls) + 1))

\* send_targeted_message: message.update(from, to=recipient, sent_at), then
\* _send_message(inbox, message) and _send_message(general, {**message, copy}).
send_targeted_message(a) ==
    /\ Idle(a, MaxSends)
    /\ \E r \in Agents \ {a}, b \in Bodies :
        /\ calls' = Append(calls, [Call0 EXCEPT !.op = "targeted", !.agent = a,
                                   !.to = r, !.body = b, !.at = now])
        /\ loc' = [loc EXCEPT ![a] =
                     [Loc0 EXCEPT !.op = "targeted", !.call = Len(calls) + 1,
                        !.chan = Inbox(r), !.stage = 1,
                        !.msg = [Msg0 EXCEPT !.from = a, !.to = r, !.sent_at = now,
                                   !.type = "question", !.body = b]]]
    /\ pc' = [pc EXCEPT ![a] = "sm_set"]
    /\ UNCHANGED <<now, nticks, locks, dedup, rate, rchecks, streams, notDev>>

\* send_broadcast and send_targeted_message of a message that carries a
\* thread_id.
send_in_thread(a) ==
    /\ Idle(a, MaxSends)
    /\ \E r \in (Agents \ {a}) \cup {"all"}, b \in Bodies, t \in Threads :
        /\ calls' = Append(calls, [Call0 EXCEPT !.op = IF r = "all" THEN "broadcast"
                                                       ELSE "targeted",
                                   !.agent = a, !.to = r, !.body = b, !.at = now])
        /\ loc' = [loc EXCEPT ![a] =
                     [Loc0 EXCEPT !.op = IF r = "all" THEN "broadcast" ELSE "targeted",
                        !.call = Len(calls) + 1,
                        !.chan = IF r = "all" THEN General ELSE Inbox(r), !.stage = 1,
                        !.msg = [Msg0 EXCEPT !.from = a, !.to = r, !.sent_at = now,
                                   !.type = "question", !.body = b, !.thread_id = t]]]
    /\ pc' = [pc EXCEPT ![a] = "sm_set"]
    /\ UNCHANGED <<now, nticks, locks, dedup, rate, rchecks, streams, notDev>>

\* start_thread(thread_info) with a thread_id given: XADD thread_info to the
\* thread's log, then send_broadcast of the thread_started event.  The XADD
\* may raise, which ends the call.
start_thread(a) ==
    /\ Idle(a, MaxSends)
    /\ \E t \in Threads :
        LET k == Len(calls) + 1
            c == [Call0 EXCEPT !.op = "start_thread", !.agent = a, !.to = "all", !.at = now]
        IN \/ /\ streams' = [streams EXCEPT ![ThreadLog(t)] =
                     Append(@, [msg |-> [Msg0 EXCEPT !.type = "thread_info", !.thread_id = t],
                                call |-> k])]
              /\ calls' = Append(calls, c)
              /\ loc' = [loc EXCEPT ![a] =
                           [Loc0 EXCEPT !.op = "broadcast", !.call = k, !.chan = General,
                              !.stage = 1,
                              !.msg = [Msg0 EXCEPT !.from = a, !.to = "all", !.sent_at = now,
                                         !.type = "thread_started", !.thread_id = t]]]
              /\ pc' = [pc EXCEPT ![a] = "sm_set"]
           \/ /\ streams' = streams
              /\ calls' = Append(calls, [c EXCEPT !.status = "raised"])
              /\ UNCHANGED <<loc, pc>>
    /\ UNCHANGED <<now, nticks, locks, dedup, rate, rchecks, notDev>>

\* What follows a finished _send_message (appended or skipped) in its caller.
AfterSendCopyToInbox(a, m, cs) ==
    IF loc[a].op = "targeted" /\ loc[a].stage = 1
    THEN /\ loc' = [loc EXCEPT ![a].msg = [m EXCEPT !.copy = TRUE], ![a].stage = 2]
         /\ pc' = [pc EXCEPT ![a] = "sm_set"]
         /\ calls' = cs
    ELSE /\ loc' = [loc EXCEPT ![a] = Loc0]
         /\ pc' = [pc EXCEPT ![a] = "idle"]
         /\ calls' = Returned(cs, loc[a].call, "ret")

AfterSend(a, m, cs) ==
    IF loc[a].op = "targeted" /\ loc[a].stage = 1
    THEN /\ loc' = [loc EXCEPT ![a].msg = [m EXCEPT !.copy = TRUE],
                               ![a].chan = General, ![a].stage = 2]
         /\ pc' = [pc EXCEPT ![a] = "sm_set"]
         /\ calls' = cs
    ELSE /\ loc' = [loc EXCEPT ![a] = Loc0]
         /\ pc' = [pc EXCEPT ![a] = "idle"]
         /\ calls' = Returned(cs, loc[a].call, "ret")

\* A broker call raises: nothing in SharedDevComm's senders catches it.
Raise(a) ==
    /\ loc' = [loc EXCEPT ![a] = Loc0]
    /\ pc' = [pc EXCEPT ![a] = "idle"]
    /\ calls' = Returned(calls, loc[a].call, "raised")

\* _send_message, first half: msg_id, hash, then SET dedup_key NX EX 60.
send_message_set(a) ==
    /\ pc[a] = "sm_set"
    /\ LET m1 == [loc[a].msg EXCEPT !.msg_id = <<a, now>>]
           m == [m1 EXCEPT !.hash = hash_of(m1)]
       IN \/ /\ ~DedupLive(m.hash)
             /\ dedup' = dedup \cup {[h |-> m.hash, exp |-> now + DEDUP_TTL]}
             /\ loc' = [loc EXCEPT ![a].msg = m]
             /\ pc' = [pc EXCEPT ![a] = "sm_xadd"]
             /\ calls' = calls
          \/ /\ DedupLive(m.hash)
             /\ dedup' = dedup
             /\ AfterSend(a, m, [calls EXCEPT ![loc[a].call].skipped = @ \cup {loc[a].chan}])
    /\ UNCHANGED <<now, nticks, locks, rate, rchecks, streams, notDev>>

\* _send_message, second half: XADD channel {"msg": json.dumps(message)}.
send_message_xadd(a) ==
    /\ pc[a] = "sm_xadd"
    /\ streams' = [streams EXCEPT ![loc[a].chan] =
                      Append(@, [msg |-> loc[a].msg, call |-> loc[a].call])]
    /\ AfterSend(a, loc[a].msg, calls)
    /\ UNCHANGED <<now, nticks, locks, dedup, rate, rchecks, notDev>>

\* The XADD raises (the broker is gone): the send raises to its caller.
send_message_xadd_raises(a) ==
    /\ pc[a] = "sm_xadd"
    /\ streams' = streams
    /\ Raise(a)
    /\ UNCHANGED <<now, nticks, locks, dedup, rate, rchecks, notDev>>

\* claim_task: SET lock_key NX EX duration, then the broadcast or the GET.
claim_task(a) ==
    /\ Idle(a, MaxClaims)
    /\ \E t \in Tasks, dur \in Durations :
        LET k == Len(calls) + 1
            c == [Call0 EXCEPT !.op = "claim", !.agent = a, !.task = t, !.dur = dur,
                    !.at = now]
            r == LockSetNx(t, [owner |-> a, acquired_at |-> now, duration |-> dur], dur)
        IN \/ /\ r.ok
              /\ locks' = r.store
              /\ calls' = Append(calls, [c EXCEPT !.acquired = TRUE])
              /\ loc' = [loc EXCEPT ![a] =
                           [Loc0 EXCEPT !.op = "claim", !.call = k, !.chan = General,
                              !.stage = 1, !.task = t,
                              !.msg = [Msg0 EXCEPT !.from = a, !.to = "all",
                                         !.sent_at = now, !.type = "task_claimed",
                                         !.task_id = t]]]
              /\ pc' = [pc EXCEPT ![a] = "sm_set"]
           \/ /\ ~r.ok
              /\ locks' = r.store
              /\ calls' = Append(calls, [c EXCEPT !.lost = TRUE])
              /\ loc' = [loc EXCEPT ![a] = [Loc0 EXCEPT !.op = "claim", !.call = k,
                                              !.task = t]]
              /\ pc' = [pc EXCEPT ![a] = "claim_get"]
    /\ UNCHANGED <<now, nticks, dedup, rate, rchecks, streams, notDev>>

\* claim_task, the losing branch: GET lock_key, print the owner, return False.
claim_task_get(a) ==
    /\ pc[a] = "claim_get"
    /\ LET k == loc[a].call
           t == loc[a].task
       IN    /\ calls' = [calls EXCEPT ![k].status = "ret",
                            ![k].reported = IF LockLive(t) THEN <<locks[t][1].val.owner>>
                                            ELSE <<>>]
             /\ loc' = [loc EXCEPT ![a] = Loc0]
             /\ pc' = [pc EXCEPT ![a] = "idle"]
    /\ UNCHANGED <<now, nticks, locks, dedup, rate, rchecks, streams, notDev>>

\* check_rate_limit: INCR rate_key, which creates the key at 1 without expiry.
\* rate[a] is <<>> while the key does not exist, else <<[count, exp]>>, with
\* exp = NoExpiry for a key that never expires.
NoExpiry == -1

RateLive(a) == rate[a] # <<>> /\ (rate[a][1].exp = NoExpiry \/ now < rate[a][1].exp)

RateCount(a) == IF RateLive(a) THEN rate[a][1].count ELSE 0

check_rate_limit(a) ==
    /\ pc[a] = "idle"
    /\ Len(rchecks) < MaxRateChecks
    /\ LET current == RateCount(a) + 1
           c == [agent |-> a, at |-> now, current |-> current, status |-> "run"]
       IN /\ rate' = [rate EXCEPT ![a] =
                        <<[count |-> current,
                           exp |-> IF RateLive(a) THEN rate[a][1].exp ELSE NoExpiry]>>]
          /\ IF current = 1
             THEN /\ rchecks' = Append(rchecks, c)
                  /\ pc' = [pc EXCEPT ![a] = "rl_expire"]
             ELSE /\ rchecks' = Append(rchecks, [c EXCEPT !.status =
                                   IF current > RATE_LIMIT THEN "raised" ELSE "ret"])
                  /\ pc' = pc
    /\ UNCHANGED <<now, nticks, locks, dedup, loc, calls, streams, notDev>>

\* check_rate_limit, after the first INCR: EXPIRE rate_key 3600.
check_rate_limit_expire(a) ==
    /\ pc[a] = "rl_expire"
    /\ \/ /\ rate' = [rate EXCEPT ![a] =
                        IF RateLive(a) THEN <<[rate[a][1] EXCEPT !.exp = now + RATE_WINDOW]>>
                        ELSE rate[a]]
          /\ rchecks' = [rchecks EXCEPT ![Len(rchecks)].status = "ret"]
       \/ /\ rate' = rate
          /\ rchecks' = [rchecks EXCEPT ![Len(rchecks)].status = "raised"]
    /\ pc' = [pc EXCEPT ![a] = "idle"]
    /\ UNCHANGED <<now, nticks, locks, dedup, loc, calls, streams, notDev>>

\* The agent's process stops after the INCR and before the EXPIRE; the agent
\* is started again later.
check_rate_limit_stops(a) ==
    /\ pc[a] = "rl_expire"
    /\ rchecks' = [rchecks EXCEPT ![Len(rchecks)].status = "stopped"]
    /\ pc' = [pc EXCEPT ![a] = "idle"]
    /\ UNCHANGED <<now, nticks, locks, dedup, rate, loc, calls, streams, notDev>>

\* The clock advances by d; the broker drops the keys whose expiry has passed.
Advance(d) ==
    /\ now' = now + d
    /\ dedup' = {x \in dedup : now + d < x.exp}
    /\ locks' = [t \in Tasks |->
                  IF locks[t] # <<>> /\ now + d < locks[t][1].exp THEN locks[t] ELSE <<>>]
    /\ rate' = [a \in Callers |->
                  IF rate[a] # <<>> /\ (rate[a][1].exp = NoExpiry \/ now + d < rate[a][1].exp)
                  THEN rate[a] ELSE <<>>]
    /\ nticks' = nticks + 1
    /\ UNCHANGED <<streams, pc, loc, calls, rchecks, notDev>>

Tick ==
    /\ nticks < MaxTicks
    /\ \E d \in TickSteps : Advance(d)

\* A whole rate-limit window goes by.
WindowTick ==
    /\ nticks < MaxWindowTicks
    /\ Advance(RATE_WINDOW)

\* ------------------------------------------------ SharedDevComm presence
\* presence[a] is <<>> while dev:presence:a was never written, else
\* <<[agent, status, timestamp, exp]>>; the key exists while now < exp.
PresenceLive(a) == presence[a] # <<>> /\ now < presence[a][1].exp

\* client.get(key): the value of a key that exists, else None.
PresenceGetStale(a) == presence[a]

PresenceGet(a) == IF PresenceLive(a) THEN presence[a] ELSE <<>>

Proc0 == [state |-> "none", timer |-> NoTimer, last_announce |-> NoTimer, failed |-> 0]

\* client.setex(presence_key, 300, json.dumps({...})).
Setex(a) ==
    [presence EXCEPT ![a] = <<[agent |-> a, status |-> "online", timestamp |-> now,
                               exp |-> now + PRESENCE_TTL]>>]

\* SharedDevComm(agent_id): get_client, then _announce_presence, whose SETEX
\* either succeeds, followed by threading.Timer(240, ...).start(), or raises
\* out of the constructor.
construct(a) ==
    /\ proc[a].state = "none"
    /\ \/ /\ presence' = Setex(a)
          /\ proc' = [proc EXCEPT ![a] = [Proc0 EXCEPT !.state = "alive",
                                            !.timer = now + PRESENCE_REFRESH,
                                            !.last_announce = now]]
       \/ /\ presence' = presence
          /\ proc' = [proc EXCEPT ![a] = [Proc0 EXCEPT !.state = "ctor_raised"]]
    /\ UNCHANGED <<now, nticks, oa, oaret, notPres>>

\* The timer fires: _announce_presence again.  A SETEX that raises ends the
\* timer thread before the next Timer is started.
announce_presence(a) ==
    /\ proc[a].state = "alive"
    /\ proc[a].timer = now
    /\ \/ /\ presence' = Setex(a)
          /\ proc' = [proc EXCEPT ![a].timer = now + PRESENCE_REFRESH,
                                  ![a].last_announce = now]
       \/ /\ presence' = presence
          /\ proc' = [proc EXCEPT ![a].timer = NoTimer, ![a].failed = @ + 1]
    /\ UNCHANGED <<now, nticks, oa, oaret, notPres>>

\* The agent process ends; its timer thread ends with it.  Nothing is written.
process_ends(a) ==
    /\ proc[a].state = "alive"
    /\ proc' = [proc EXCEPT ![a].state = "stopped", ![a].timer = NoTimer]
    /\ UNCHANGED <<now, nticks, presence, oa, oaret, notPres>>

Oa0 == [pc |-> "idle", keys |-> {}, scanned |-> {}, agents |-> {}]

\* get_online_agents: scan_iter("dev:presence:*") finds the keys that exist.
online_scan ==
    /\ oa.pc = "idle"
    /\ Len(oaret) < MaxOnlineCalls
    /\ LET keys == {a \in Callers : PresenceLive(a)}
       IN oa' = [Oa0 EXCEPT !.pc = "get", !.keys = keys, !.scanned = keys]
    /\ UNCHANGED <<now, nticks, presence, proc, oaret, notPres>>

\* get_online_agents: client.get(key) of the next key; a value is appended,
\* None is skipped.  After the last key the list is returned.
online_get ==
    /\ oa.pc = "get"
    /\ IF oa.keys = {}
       THEN /\ oaret' = Append(oaret, [scanned |-> oa.scanned, agents |-> oa.agents])
            /\ oa' = Oa0
       ELSE /\ \E k \in oa.keys :
                 LET v == PresenceGet(k)
                 IN oa' = [oa EXCEPT !.keys = @ \ {k},
                              !.agents = IF v # <<>>
                                         THEN @ \cup {[agent |-> v[1].agent, exp |-> v[1].exp,
                                                       key |-> k, read_at |-> now]}
                                         ELSE @]
            /\ oaret' = oaret
    /\ UNCHANGED <<now, nticks, presence, proc, notPres>>

\* A minute goes by; a timer that is due fires before the clock moves on.
PresenceTick ==
    /\ nticks < MaxPresTicks
    /\ \A a \in Callers : proc[a].timer # NoTimer => now + PresenceStep <= proc[a].timer
    /\ now' = now + PresenceStep
    /\ nticks' = nticks + 1
    /\ UNCHANGED <<presence, proc, oa, oaret, notPres>>

\* ---------------------------------------------------------------- DevCommV2
\* The caller's message dict.  size is len(json.dumps(message)) of the dict
\* as passed; ttl = 0 stands for no 'ttl' key, "" for a missing key.
V2Valid ==
    [sender |-> "claude", type |-> "task", priority |-> "high", subject_len |-> MAX_SUBJECT,
     size |-> MAX_MESSAGE_SIZE, body |-> "b1", ttl |-> 0]

\* A valid message with and without ttl, and the messages with one fault.
V2Inputs ==
    {V2Valid, [V2Valid EXCEPT !.ttl = 60],
     [V2Valid EXCEPT !.subject_len = MAX_SUBJECT + 1],
     [V2Valid EXCEPT !.size = MAX_MESSAGE_SIZE + 1],
     [V2Valid EXCEPT !.sender = ""], [V2Valid EXCEPT !.type = ""],
     [V2Valid EXCEPT !.priority = "urgent"], [V2Valid EXCEPT !.body = ""]}

Priorities == {"low", "normal", "high", "critical"}

\* _validate_message: the asserts, in order.
validate_nothing(m) == TRUE

validate_message(m) ==
    /\ m.subject_len <= MAX_SUBJECT
    /\ m.size <= MAX_MESSAGE_SIZE
    /\ m.sender # ""
    /\ m.type # ""
    /\ m.priority \in Priorities
    /\ m.body # ""

\* send stamps id, timestamp, version and attempt on the dict.
Stamped(m) ==
    [in |-> m, id |-> <<m.sender, now>>, timestamp |-> now, version |-> "2.0", attempt |-> 0]

\* len(json.dumps(message)) of the stamped dict, at the least: the four
\* items added are ', "id": "<sender>-<13 digits>"', ', "timestamp":
\* "<19 characters, 26 with microseconds>Z"', ', "version": "2.0"' and
\* ', "attempt": 0'.
STAMP_FIXED == 93
StampedSize(st) == st.in.size + STAMP_FIXED + Len(st.in.sender)

Snd0 == [pc |-> "idle", call |-> 0, attempt |-> 0, client |-> "", msg_id |-> <<>>]

Send0 ==
    [in |-> V2Valid, msg |-> <<>>, status |-> "run", result |-> <<>>,
     xadds |-> 0, failed |-> 0, mocked |-> 0, backup_error |-> FALSE, appended_at |-> <<>>]

CurMsg == sends[snd.call].msg[1]

\* send, lines 35-39: validate (AssertionError on a bad message), stamp.
v2_send ==
    /\ snd.pc = "idle"
    /\ Len(sends) < MaxV2Sends
    /\ \E m \in V2Inputs :
        IF validate_message(m)
        THEN /\ sends' = Append(sends, [Send0 EXCEPT !.in = m, !.msg = <<Stamped(m)>>])
             /\ snd' = [Snd0 EXCEPT !.pc = "connect", !.call = Len(sends) + 1]
        ELSE /\ sends' = Append(sends, [Send0 EXCEPT !.in = m, !.status = "invalid"])
             /\ snd' = snd
    /\ UNCHANGED <<now, streams, backup, expires, notV2>>

\* SmartRedisClient().get_client(): the first host that answers a ping, or,
\* with every host unreachable, a MockRedisClient.  It never raises.
get_client ==
    /\ snd.pc = "connect"
    /\ \E reachable \in BOOLEAN :
        /\ snd' = [snd EXCEPT !.pc = "xadd", !.client = IF reachable THEN "redis" ELSE "mock"]
        /\ sends' = [sends EXCEPT ![snd.call].mocked = @ + (IF reachable THEN 0 ELSE 1)]
    /\ UNCHANGED <<now, streams, backup, expires, notV2>>

\* The except clauses of the retry loop: log, sleep 2 ** attempt, next
\* attempt; after the last one the loop is left for the backup.
AttemptFailedOneMore ==
    /\ now' = now + 2 ^ snd.attempt
    /\ snd' = [snd EXCEPT !.attempt = @ + 1, !.msg_id = <<>>, !.client = "",
                          !.pc = IF snd.attempt + 1 <= RETRY THEN "connect" ELSE "backup"]

AttemptFailed ==
    /\ now' = now + 2 ^ snd.attempt
    /\ snd' = [snd EXCEPT !.attempt = @ + 1, !.msg_id = <<>>, !.client = "",
                          !.pc = IF snd.attempt + 1 < RETRY THEN "connect" ELSE "backup"]

Return(ss) ==
    /\ sends' = [ss EXCEPT ![snd.call].status = "ret", ![snd.call].result = snd'.msg_id]

\* client.xadd(STREAM_KEY, {'data': json.dumps(message)}, maxlen=1000).
\* MockRedisClient.xadd stores nothing and returns "mock-id".
v2_xadd ==
    /\ snd.pc = "xadd"
    /\ LET ss == [sends EXCEPT ![snd.call].xadds = @ + 1]
           ttl == CurMsg.in.ttl # 0
       IN \/ /\ snd.client = "mock"
             /\ streams' = streams
             /\ now' = now
             /\ snd' = IF ttl THEN [snd EXCEPT !.pc = "expire", !.msg_id = <<"mock-id", 0>>]
                              ELSE [Snd0 EXCEPT !.msg_id = <<"mock-id", 0>>]
             /\ IF ttl THEN sends' = ss ELSE Return(ss)
          \/ /\ snd.client = "redis"
             /\ streams' = [streams EXCEPT ![STREAM_KEY] =
                               Append(@, [data |-> CurMsg, call |-> snd.call])]
             /\ now' = now
             /\ snd' = IF ttl THEN [snd EXCEPT !.pc = "expire",
                                                !.msg_id = <<"id", Len(streams[STREAM_KEY]) + 1>>]
                              ELSE [Snd0 EXCEPT !.msg_id = <<"id", Len(streams[STREAM_KEY]) + 1>>]
             /\ LET sa == [ss EXCEPT ![snd.call].appended_at = <<now>>]
                IN IF ttl THEN sends' = sa ELSE Return(sa)
          \/ /\ snd.client = "redis"
             /\ streams' = streams
             /\ sends' = [ss EXCEPT ![snd.call].failed = @ + 1]
             /\ AttemptFailed
    /\ UNCHANGED <<backup, expires, notV2>>

\* The keys of the broker that hold a stream: a stream exists once it has an
\* entry.  The entries of a stream are not keys.
KeyExists(key) == \E c \in AllChannels : c = key /\ streams[c] # <<>>

\* EXPIRE key seconds: sets the expiry of an existing key, and does nothing
\* (returns 0) for a key that does not exist.
Expire(key, ttl) ==
    IF KeyExists(key)
    THEN {e \in expires : e.key # key} \cup {[key |-> key, exp |-> now + ttl]}
    ELSE expires

\* f"{cls.STREAM_KEY}:{msg_id}"
EntryKey(msg_id) == STREAM_KEY \o ":" \o ToString(msg_id[2])

\* What a read or a history query of the stream returns: the entries of the
\* stream unless its key has expired.
XRange(c) ==
    IF \E e \in expires : e.key = c /\ now >= e.exp THEN <<>> ELSE streams[c]

\* client.expire(f"{STREAM_KEY}:{msg_id}", ttl), MockRedisClient.expire
\* returning True at once; the call to the broker may raise.
v2_expire ==
    /\ snd.pc = "expire"
    /\ \/ /\ snd' = [Snd0 EXCEPT !.msg_id = snd.msg_id]
          /\ expires' = IF snd.client = "mock" THEN expires
                        ELSE Expire(EntryKey(snd.msg_id), CurMsg.in.ttl)
          /\ Return(sends)
          /\ now' = now
       \/ /\ snd.client = "redis"
          /\ expires' = expires
          /\ sends' = [sends EXCEPT ![snd.call].failed = @ + 1]
          /\ AttemptFailed
    /\ UNCHANGED <<streams, backup, notV2>>

\* _write_to_disk_backup, then raise: one line appended to the fallback file,
\* or the write fails, which is logged and swallowed.
BackupLine == [data |-> CurMsg, call |-> snd.call]

write_to_disk_backup ==
    /\ snd.pc = "backup"
    /\ \/ /\ backup' = Append(backup, BackupLine)
          /\ sends' = [sends EXCEPT ![snd.call].status = "raised"]
       \/ /\ backup' = backup
          /\ sends' = [sends EXCEPT ![snd.call].status = "raised",
                                    ![snd.call].backup_error = TRUE]
    /\ snd' = Snd0
    /\ UNCHANGED <<now, streams, expires, notV2>>

\* Time passes between the sends.
TtlTick ==
    /\ snd.pc = "idle"
    /\ nticks < MaxTtlTicks
    /\ now' = now + TtlStep
    /\ nticks' = nticks + 1
    /\ UNCHANGED <<streams, devVars, v2Vars, busVars, presVars, lsnVars, ibVars>>

\* ------------------------------------------------------- DevCommV2.listen
\* The 'data' field of an entry: the JSON text of a stamped message, or a
\* text that is not JSON.
NotJson == [in |-> V2Valid, id |-> <<>>, timestamp |-> 0, version |-> "", attempt |-> 0]

ListenData == {Stamped([V2Valid EXCEPT !.sender = a]) : a \in Agents} \cup {NotJson}

\* Some producer appends an entry to the stream the listener reads.  Entries
\* from before the listener started are either never read (cursor '$') or
\* read like later ones (cursor 0).
stream_xadd ==
    /\ ls.pc # "off"
    /\ Len(streams[STREAM_KEY]) < MaxListenLen
    /\ \E d \in ListenData :
        streams' = [streams EXCEPT ![STREAM_KEY] = Append(@, [data |-> d, call |-> 0])]
    /\ UNCHANGED <<ls, stop, il, notLsn>>

\* The cursor '$': the entries appended after the XREAD was issued.
Dollar == -1

\* The keys of the field dict XREAD returns: str from a client that decodes
\* responses, as get_client builds it, bytes from one that does not.
KeyTypes == {"str", "bytes"}

\* The agent whose SharedDevComm listens, and the channels it reads.
Listener == "gemini"
InboxChannels == {Inbox(Listener), General}

Il0 ==
    [pc |-> "off", keys |-> "", client |-> "",
     last_ids |-> [c \in InboxChannels |-> Dollar], from |-> [c \in InboxChannels |-> 0],
     batch |-> <<>>, reads |-> 0, handled |-> <<>>]

Ls0 ==
    [pc |-> "off", keys |-> "", filter |-> "", client |-> "", last_id |-> Dollar,
     from |-> 0, batch |-> <<>>, reads |-> 0, handled |-> <<>>, done |-> {}]

\* listen(callback, sender_filter, last_id); "" stands for no filter.  The
\* loop does not return, so a process runs one listener.
listen ==
    /\ ls.pc = "off" /\ il.pc = "off"
    /\ \E f \in {"", "claude"}, kt \in KeyTypes, last \in {Dollar, 0} :
        ls' = [Ls0 EXCEPT !.pc = "connect", !.filter = f, !.keys = kt, !.last_id = last]
    /\ UNCHANGED <<streams, stop, il, notLsn>>

\* The top of the loop: get_client, then XREAD {STREAM_KEY: last_id} block=5000
\* count=10 is issued.
listen_connect ==
    /\ ls.pc = "connect"
    /\ ls.reads < MaxListenReads
    /\ \E reachable \in BOOLEAN :
        ls' = [ls EXCEPT !.pc = "xread", !.reads = @ + 1,
                 !.client = IF reachable THEN "redis" ELSE "mock",
                 !.from = IF ls.last_id = Dollar THEN Len(streams[STREAM_KEY])
                          ELSE ls.last_id]
    /\ stop' = IF stop.raised /\ stop.reads < 2 THEN [stop EXCEPT !.reads = @ + 1] ELSE stop
    /\ UNCHANGED <<streams, il, notLsn>>

\* XREAD returns entries, or nothing when the block times out (at once from
\* the mock client), or raises, which is logged and slept on.
listen_xread ==
    /\ ls.pc = "xread"
    /\ LET batch == IF ls.client = "mock" THEN <<>>
                    ELSE [i \in 1..(IF Len(streams[STREAM_KEY]) - ls.from < LISTEN_COUNT
                                    THEN Len(streams[STREAM_KEY]) - ls.from
                                    ELSE LISTEN_COUNT) |-> ls.from + i]
       IN \/ ls' = [ls EXCEPT !.pc = IF batch = <<>> THEN "connect" ELSE "process",
                              !.batch = batch]
          \/ /\ ls.client = "redis"
             /\ ls' = [ls EXCEPT !.pc = "connect"]
    /\ UNCHANGED <<streams, stop, il, notLsn>>

\* json.loads(data[b'data']): KeyError unless the keys are bytes, a decode
\* error unless the text is JSON.
LoadRaises(keys, d) == keys # "bytes" \/ d = NotJson

CursorAfter(last, id) == id

\* The body of the inner loop for the entry at the head of the batch: load,
\* filter (continue), callback, last_id = msg_id; an exception of any of
\* them is logged and the next entry taken.
listen_process ==
    /\ ls.pc = "process"
    /\ LET id == Head(ls.batch)
           d == streams[STREAM_KEY][id].data
           rest == [ls EXCEPT !.batch = Tail(@), !.done = @ \cup {id},
                              !.pc = IF Tail(ls.batch) = <<>> THEN "connect" ELSE "process"]
       IN IF LoadRaises(ls.keys, d) \/ (ls.filter # "" /\ d.in.sender # ls.filter)
          THEN ls' = rest
          ELSE \/ ls' = [rest EXCEPT !.handled = Append(@, id),
                                     !.last_id = CursorAfter(ls.last_id, id)]
               \/ ls' = [rest EXCEPT !.handled = Append(@, id)]
    /\ UNCHANGED <<streams, stop, il, notLsn>>

\* -------------------------------------- SharedDevComm.listen_to_my_inbox
\* Some agent's _send_message appends to the listener's inbox or to general.
\* The cursors start at '$', so only entries appended after the listener
\* started can reach it.
channel_xadd ==
    /\ il.pc # "off"
    /\ Len(streams[Inbox(Listener)]) + Len(streams[General]) < MaxListenLen
    /\ \E c \in InboxChannels :
        streams' = [streams EXCEPT ![c] =
            Append(@, [msg |-> [Msg0 EXCEPT !.from = "claude", !.type = "note", !.body = "b1",
                                            !.to = IF c = General THEN "all" ELSE Listener],
                       call |-> 0])]
    /\ UNCHANGED <<ls, stop, il, notLsn>>

\* listen_to_my_inbox(callback) of an object whose client is the one
\* get_client returned at construction.
listen_to_my_inbox ==
    /\ ls.pc = "off" /\ il.pc = "off"
    /\ \E kt \in KeyTypes, cl \in {"redis", "mock"} :
        il' = [Il0 EXCEPT !.pc = "connect", !.keys = kt, !.client = cl]
    /\ UNCHANGED <<streams, ls, stop, notLsn>>

\* The top of the loop: XREAD last_ids block=5000 is issued.
inbox_issue ==
    /\ il.pc = "connect"
    /\ il.reads < MaxListenReads
    /\ il' = [il EXCEPT !.pc = "xread", !.reads = @ + 1,
                !.from = [c \in InboxChannels |->
                            IF il.last_ids[c] = Dollar THEN Len(streams[c]) ELSE il.last_ids[c]]]
    /\ stop' = IF stop.raised /\ stop.reads < 2 THEN [stop EXCEPT !.reads = @ + 1] ELSE stop
    /\ UNCHANGED <<streams, ls, notLsn>>

NewOn(c) == [i \in 1..(Len(streams[c]) - il.from[c]) |-> <<c, il.from[c] + i>>]

\* XREAD returns the new entries of the inbox and of general, or nothing
\* when the block times out (at once from the mock client), or raises, which
\* is logged and slept on.
inbox_xread ==
    /\ il.pc = "xread"
    /\ LET batch == IF il.client = "mock" THEN <<>>
                    ELSE NewOn(Inbox(Listener)) \o NewOn(General)
       IN \/ il' = [il EXCEPT !.pc = IF batch = <<>> THEN "connect" ELSE "process",
                              !.batch = batch]
          \/ /\ il.client = "redis"
             /\ il' = [il EXCEPT !.pc = "connect"]
    /\ UNCHANGED <<streams, ls, stop, notLsn>>

\* The body of the inner loop for the entry at the head of the batch: load,
\* callback if addressed to the agent, to all or read from general, then
\* last_ids[stream] = msg_id.  An exception leaves the whole batch for the
\* outer handler, which logs and sleeps.
inbox_process ==
    /\ il.pc = "process"
    /\ LET c == Head(il.batch)[1]
           id == Head(il.batch)[2]
           m == streams[c][id].msg
           rest == [il EXCEPT !.batch = Tail(@),
                              !.pc = IF Tail(il.batch) = <<>> THEN "connect" ELSE "process"]
           raised == [il EXCEPT !.batch = <<>>, !.pc = "connect"]
           moved == [rest EXCEPT !.last_ids[c] = CursorAfter(il.last_ids[c], id)]
       IN IF il.keys # "bytes"
          THEN il' = raised
          ELSE IF m.to = Listener \/ m.to = "all" \/ c = General
          THEN \/ il' = [moved EXCEPT !.handled = Append(@, <<c, id>>)]
               \/ il' = [raised EXCEPT !.handled = Append(@, <<c, id>>)]
          ELSE il' = moved
    /\ UNCHANGED <<streams, ls, stop, notLsn>>

\* A stop signal for the running listener, as the specification describes it;
\* listen has no parameter, attribute or global that could carry one.
raise_stop ==
    /\ ls.pc # "off" \/ il.pc # "off"
    /\ ~stop.raised
    /\ stop' = [stop EXCEPT !.raised = TRUE]
    /\ UNCHANGED <<streams, ls, il, notLsn>>

\* ------------------------------------------------- event bus (ai-agents)
STREAM_NAME == "agent_updates"
AgentInbox(a) == "agent_inbox:" \o a
BusAgents == Agents \cup {"cursor"}
BusStreams == {STREAM_NAME} \cup {AgentInbox(a) : a \in BusAgents}
CONSUMER_NAME == "replier"
READ_COUNT == 10
WAIT_BLOCK_MS == 1000

\* The fields XADDed by send_message; an absent key is "" / <<>>.
BusMsg0 ==
    [sender |-> "", action |-> "", timestamp |-> 0, message_type |-> "",
     correlation_id |-> <<>>, reply_to |-> "", payload |-> "{}"]

\* payload arguments: None or {}, a non-empty dict, a non-empty list.
json_dumps(p) == IF p = "dict" THEN "{...}" ELSE IF p = "list" THEN "[...]" ELSE "{}"
json_loads(s) == IF s = "[...]" THEN "list" ELSE "dict"

\* send_message: the fields of the entry.  A request without a correlation id
\* gets f"{sender}_{ms}".
message_data(sender, action, payload, cid, reply_to, mtype) ==
    [BusMsg0 EXCEPT !.sender = sender, !.action = action, !.timestamp = ms,
        !.message_type = mtype,
        !.correlation_id = IF mtype = "request" /\ cid = <<>> THEN <<sender, ms>> ELSE cid,
        !.reply_to = reply_to,
        !.payload = IF payload = "none" THEN "{}" ELSE json_dumps(payload)]

\* send_message: a direct message with a reply_to goes to that agent's inbox,
\* everything else to the shared stream.
target_stream(m) ==
    IF m.message_type = "direct" /\ m.reply_to # ""
    THEN AgentInbox(m.reply_to) ELSE STREAM_NAME

xadd(b, m) == [b EXCEPT ![target_stream(m)] = Append(@, m)]

BusLen == Len(bus[STREAM_NAME]) + Len(bus[AgentInbox("claude")])
            + Len(bus[AgentInbox("gemini")]) + Len(bus[AgentInbox("cursor")])

\* The ids after last in stream s, at most n of them, in order.
ReadAfter(s, last, n) ==
    [i \in 1..(IF Len(bus[s]) - last < n THEN Len(bus[s]) - last ELSE n) |-> last + i]

\* ---------------------------------------------------- direct messaging
InboxOwner == "gemini"
DirectSender == "claude"

\* The message_type and reply_to arguments of the send_message calls.
DirectKinds ==
    {<<"direct", InboxOwner>>, <<"direct", "">>, <<"broadcast", "">>, <<"response", InboxOwner>>}

\* send_message(client, sender, action, payload, reply_to=, message_type=):
\* one XADD to the target stream; when it raises, the error is printed and
\* None returned.
send_message(a) ==
    /\ BusLen < MaxDirect
    /\ \E k \in DirectKinds :
        \/ bus' = xadd(bus, message_data(a, "direct_message", "dict", <<>>, k[2], k[1]))
        \/ bus' = bus
    /\ UNCHANGED <<grp, rp, rlog, wt, ms, mticks, notBus>>

READ_INBOX_COUNT == 5

Ib0 == [agent |-> "", count |-> 0, last_id |-> 0, len |-> 0, ok |-> FALSE, result |-> <<>>]

\* What XREAD {inbox: last_id} count=count returns: the ids of the first
\* count entries after last_id.
InboxPageAll(s, last, n) == [i \in 1..(Len(bus[s]) - last) |-> last + i]

InboxPage(s, last, n) == ReadAfter(s, last, n)

\* read_agent_inbox(client, agent_id, count=5, last_id="0-0"): the entries
\* read, each with its id, or [] when the read raises.
read_agent_inbox(a) ==
    /\ \E count \in {1, READ_INBOX_COUNT}, last \in {0, 1}, ok \in BOOLEAN :
        /\ last <= Len(bus[AgentInbox(a)])
        /\ ib' = [agent |-> a, count |-> count, last_id |-> last,
                  len |-> Len(bus[AgentInbox(a)]), ok |-> ok,
                  result |-> IF ok THEN InboxPage(AgentInbox(a), last, count) ELSE <<>>]
    /\ UNCHANGED <<busVars, now, nticks, streams, devVars, v2Vars, presVars, lsnVars>>

\* ------------------------------------------------ consumer-group replier
Actions == {"hello_world", "lock_shell", "unlock_shell", "ping"}
\* The payload is a dict, or for the lock actions possibly a list.
Payloads(act) == IF act = "lock_shell" THEN {"dict", "list"} ELSE {"dict"}

Grp0 == [last |-> 0, pel |-> {}, acked |-> <<>>]
Rp0 == [pc |-> "read", batch |-> <<>>, errors |-> 0]

\* An agent calls send_message(client, sender, action, payload): a broadcast.
bus_send(a) ==
    /\ Cardinality({i \in DOMAIN bus[STREAM_NAME] :
                       bus[STREAM_NAME][i].sender \in Agents}) < MaxBusSends
    /\ \E act \in Actions : \E p \in Payloads(act) :
        bus' = xadd(bus, message_data(a, act, p, <<>>, "", "broadcast"))
    /\ UNCHANGED <<grp, rp, rlog, wt, ms, mticks, notBus>>

\* decode_message: every field value goes through json.loads, falling back
\* to the decoded string; the payload comes out as a dict or a list.
decode_message(raw) == [raw EXCEPT !.payload = json_loads(raw.payload)]

\* The reply action the dispatch chain picks for an action.
ReplyAction(action) ==
    IF action = "hello_world" THEN "hello_reply"
    ELSE IF action = "lock_shell" THEN "lock_ack"
    ELSE IF action = "unlock_shell" THEN "unlock_ack"
    ELSE "unhandled_action"

\* {"to": sender, **payload} raises TypeError unless payload is a mapping.
DispatchRaises(data) ==
    data.action \in {"lock_shell", "unlock_shell"} /\ data.payload # "dict"

\* XREADGROUP group consumer {stream: ">"} count=10: the entries never
\* delivered to the group, which become pending.  A ConnectionError is
\* caught and the read retried.
replier_xreadgroup ==
    /\ rp.pc = "read"
    /\ grp.last < MaxRead
    /\ \/ /\ Len(bus[STREAM_NAME]) > grp.last
          /\ LET batch == ReadAfter(STREAM_NAME, grp.last, READ_COUNT)
             IN /\ grp' = [grp EXCEPT !.last = batch[Len(batch)],
                                      !.pel = @ \cup {batch[i] : i \in DOMAIN batch}]
                /\ rp' = [rp EXCEPT !.pc = "dispatch", !.batch = batch]
                /\ rlog' = rlog \o [i \in DOMAIN batch |->
                                      [ev |-> "read", id |-> batch[i], action |-> ""]]
       \/ /\ rp.errors < MaxConnErrors
          /\ rp' = [rp EXCEPT !.errors = @ + 1]
          /\ UNCHANGED <<grp, rlog>>
    /\ UNCHANGED <<bus, wt, ms, mticks, notBus>>

\* The dispatch chain for the entry at the head of the batch: one
\* send_message call, which returns None when its XADD fails.
replier_dispatch ==
    /\ rp.pc = "dispatch"
    /\ LET id == Head(rp.batch)
           data == decode_message(bus[STREAM_NAME][id])
           act == ReplyAction(data.action)
           reply == message_data(CONSUMER_NAME, act, "dict", <<>>, "", "broadcast")
       IN \/ /\ DispatchRaises(data)
             /\ rp' = [rp EXCEPT !.pc = "crashed"]
             /\ UNCHANGED <<bus, rlog>>
          \/ /\ ~DispatchRaises(data)
             /\ \/ /\ bus' = xadd(bus, reply)
                   /\ rlog' = Append(rlog, [ev |-> "reply", id |-> id, action |-> act])
                \/ /\ bus' = bus
                   /\ rlog' = Append(rlog, [ev |-> "reply_failed", id |-> id,
                                            action |-> act])
             /\ rp' = [rp EXCEPT !.pc = "ack"]
    /\ UNCHANGED <<grp, wt, ms, mticks, notBus>>

\* client.xack(STREAM_NAME, CONSUMER_GROUP, message_id), outside any try.
replier_xack ==
    /\ rp.pc = "ack"
    /\ LET id == Head(rp.batch)
       IN \/ /\ grp' = [grp EXCEPT !.pel = @ \ {id}, !.acked = Append(@, id)]
             /\ rlog' = Append(rlog, [ev |-> "ack", id |-> id, action |-> ""])
             /\ rp' = [rp EXCEPT !.batch = Tail(@),
                                 !.pc = IF Tail(rp.batch) = <<>> THEN "read" ELSE "dispatch"]
          \/ /\ rp' = [rp EXCEPT !.pc = "crashed"]
             /\ UNCHANGED <<grp, rlog>>
    /\ UNCHANGED <<bus, wt, ms, mticks, notBus>>

\* The replier is started again after its main ended on an exception:
\* connect, ensure_consumer_group (the group exists: BUSYGROUP is ignored and
\* the group keeps its last-delivered id and its pending entries), then the
\* loop reads with ">".
replier_restart ==
    /\ rp.pc = "crashed"
    /\ rp' = [rp EXCEPT !.pc = "read", !.batch = <<>>]
    /\ UNCHANGED <<bus, grp, rlog, wt, ms, mticks, notBus>>

\* ------------------------------------------- request/response correlation
Waiter == "claude"
Responder == "gemini"
Requesters == {Waiter, "cursor"}
Timeouts == {1}
WaitTickStep == WAIT_BLOCK_MS \div 2

Wt0 ==
    [pc |-> "idle", cid |-> <<>>, req |-> <<>>, timeout |-> 0, decoded |-> TRUE,
     start |-> 0, last_id |-> 0, block_until |-> 0, result |-> <<>>, ret_at |-> 0,
     raised |-> FALSE]

\* send_request: correlation id f"{sender}_{ms}", type direct if reply_to else
\* request, then send_message, whose failure is swallowed; returns the id.
send_request(a) ==
    /\ BusLen < MaxBusLen
    /\ a = Waiter => wt.pc = "idle"
    /\ \E r \in {"", Responder}, ok \in (IF a = Waiter THEN BOOLEAN ELSE {TRUE}) :
        LET cid == <<a, ms>>
            m == message_data(a, "ping", "dict", cid, r, IF r # "" THEN "direct" ELSE "request")
        IN /\ bus' = IF ok THEN xadd(bus, m) ELSE bus
           /\ wt' = IF a = Waiter
                    THEN [wt EXCEPT !.pc = "requested", !.cid = cid,
                            !.req = IF ok THEN <<target_stream(m), Len(bus[target_stream(m)]) + 1>>
                                    ELSE <<>>]
                    ELSE wt
    /\ UNCHANGED <<grp, rp, rlog, ms, mticks, notBus>>

\* The requests agent b can see: on the shared stream or in its own inbox.
RequestsSeenBy(b) ==
    {e \in {bus[STREAM_NAME][i] : i \in DOMAIN bus[STREAM_NAME]} : e.message_type = "request"}
      \cup {e \in {bus[AgentInbox(b)][i] : i \in DOMAIN bus[AgentInbox(b)]} :
              e.message_type = "direct" /\ e.correlation_id # <<>>}

\* send_response: type direct if reply_to else response, then send_message.
send_response(b) ==
    /\ BusLen < MaxBusLen
    /\ \E e \in RequestsSeenBy(b) : \E r \in {"", e.sender} :
        /\ e.sender # b
        /\ bus' = xadd(bus, message_data(b, "pong", "dict", e.correlation_id, r,
                                         IF r # "" THEN "direct" ELSE "response"))
    /\ UNCHANGED <<grp, rp, rlog, wt, ms, mticks, notBus>>

\* wait_for_response(client, correlation_id, timeout_seconds): start_time and
\* last_id = "0-0".  decoded tells whether the client decodes responses.
wait_for_response ==
    /\ wt.pc = "requested"
    /\ \E t \in Timeouts, dec \in BOOLEAN :
        wt' = [wt EXCEPT !.pc = "check", !.timeout = t, !.decoded = dec, !.start = ms,
                         !.last_id = 0]
    /\ UNCHANGED <<bus, grp, rp, rlog, ms, mticks, notBus>>

TimedOutLate(elapsed, timeout_seconds) == elapsed > timeout_seconds * 1000 + WAIT_BLOCK_MS

TimedOut(elapsed, timeout_seconds) == elapsed > timeout_seconds * 1000

ReturnNone(w) == [w EXCEPT !.pc = "returned", !.result = <<>>, !.ret_at = ms]

\* The top of the loop: elapsed > timeout_seconds returns None, else XREAD.
wait_check ==
    /\ wt.pc = "check"
    /\ wt' = IF TimedOut(ms - wt.start, wt.timeout)
             THEN ReturnNone(wt)
             ELSE [wt EXCEPT !.pc = "xread", !.block_until = ms + WAIT_BLOCK_MS]
    /\ UNCHANGED <<bus, grp, rp, rlog, ms, mticks, notBus>>

\* message_data.get(key) on an entry read by the client: the fields have str
\* keys only when the client decodes responses, else bytes keys and get
\* returns None.
dict_get(decoded, v) == IF decoded THEN <<v>> ELSE <<>>

MatchesAnyCorrelation(m, cid, decoded) ==
    dict_get(decoded, m.message_type) \in {<<"response">>, <<"direct">>}

Matches(m, cid, decoded) ==
    /\ dict_get(decoded, m.message_type) \in {<<"response">>, <<"direct">>}
    /\ dict_get(decoded, m.correlation_id) = <<cid>>

\* XREAD {STREAM_NAME: last_id} count=10 block=1000 and the scan of what it
\* returns: the first match is returned; any exception returns None.
wait_xread ==
    /\ wt.pc = "xread"
    /\ LET batch == ReadAfter(STREAM_NAME, wt.last_id, READ_COUNT)
           hits == {i \in DOMAIN batch :
                      Matches(bus[STREAM_NAME][batch[i]], wt.cid, wt.decoded)}
           first == CHOOSE i \in hits : \A j \in hits : i <= j
       IN \/ /\ batch # <<>>
             /\ wt' = IF hits # {}
                      THEN [wt EXCEPT !.pc = "returned", !.last_id = batch[first],
                              !.ret_at = ms,
                              !.result = <<[id |-> batch[first],
                                            data |-> bus[STREAM_NAME][batch[first]]]>>]
                      ELSE [wt EXCEPT !.pc = "check", !.last_id = batch[Len(batch)]]
          \/ /\ batch = <<>>
             /\ ms >= wt.block_until
             /\ wt' = [wt EXCEPT !.pc = "check"]
          \/ wt' = [ReturnNone(wt) EXCEPT !.raised = TRUE]
    /\ UNCHANGED <<bus, grp, rp, rlog, ms, mticks, notBus>>

\* Time passes while the requester is blocked in XREAD with nothing to read,
\* and never past the end of the block; the steps of the loop take no time.
MsTick ==
    /\ mticks < MaxMsTicks
    /\ wt.pc = "xread"
    /\ Len(bus[STREAM_NAME]) = wt.last_id
    /\ ms + WaitTickStep <= wt.block_until
    /\ ms' = ms + WaitTickStep
    /\ mticks' = mticks + 1
    /\ UNCHANGED <<bus, grp, rp, rlog, wt, notBus>>

Init ==
    /\ now = 0
    /\ nticks = 0
    /\ locks = [t \in Tasks |-> <<>>]
    /\ dedup = {}
    /\ rate = [a \in Callers |-> <<>>]
    /\ streams = [c \in AllChannels |-> <<>>]
    /\ pc = [a \in Callers |-> "idle"]
    /\ loc = [a \in Callers |-> Loc0]
    /\ calls = <<>>
    /\ rchecks = <<>>
    /\ snd = Snd0
    /\ sends = <<>>
    /\ backup = <<>>
    /\ expires = {}
    /\ bus = [c \in BusStreams |-> <<>>]
    /\ grp = Grp0
    /\ rp = Rp0
    /\ rlog = <<>>
    /\ wt = Wt0
    /\ ms = 0
    /\ mticks = 0
    /\ presence = [a \in Callers |-> <<>>]
    /\ proc = [a \in Callers |-> Proc0]
    /\ oa = Oa0
    /\ oaret = <<>>
    /\ ls = Ls0
    /\ ib = Ib0
    /\ il = Il0
    /\ stop = [raised |-> FALSE, reads |-> 0]

\* Task locks: agents claim tasks while time passes.
NextLock ==
    \/ \E a \in Callers : claim_task(a)
    \/ \E a \in Callers : claim_task_get(a)
    \/ \E a \in Callers : send_message_set(a)
    \/ \E a \in Callers : send_message_xadd(a)
    \/ \E a \in Callers : send_message_xadd_raises(a)
    \/ Tick

SpecLock == Init /\ [][NextLock]_vars

\* Messaging: agents broadcast and send targeted messages while time passes.
NextComm ==
    \/ \E a \in Callers : send_broadcast(a)
    \/ \E a \in Callers : send_targeted_message(a)
    \/ \E a \in Callers : send_message_set(a)
    \/ \E a \in Callers : send_message_xadd(a)
    \/ \E a \in Callers : send_message_xadd_raises(a)
    \/ Tick

SpecComm == Init /\ [][NextComm]_vars

\* Threads: agents start threads and send messages that carry a thread_id.
NextThread ==
    \/ \E a \in Agents : start_thread(a)
    \/ \E a \in Agents : send_in_thread(a)
    \/ \E a \in Agents : send_message_set(a)
    \/ \E a \in Agents : send_message_xadd(a)
    \/ \E a \in Agents : send_message_xadd_raises(a)
    \/ Tick

SpecThread == Init /\ [][NextThread]_vars

\* DevCommV2.send: one sender, the broker reachable or not at each attempt.
NextSend ==
    \/ v2_send
    \/ get_client
    \/ v2_xadd
    \/ v2_expire
    \/ write_to_disk_backup

SpecSend == Init /\ [][NextSend]_vars

\* DevCommV2.send with time passing between the sends.
NextTtl ==
    \/ NextSend
    \/ TtlTick

SpecTtl == Init /\ [][NextTtl]_vars

\* The replier: agents post actions, the replier reads, replies and acks.
NextReplier ==
    \/ \E a \in Agents : bus_send(a)
    \/ replier_xreadgroup
    \/ replier_dispatch
    \/ replier_xack

SpecReplier == Init /\ [][NextReplier]_vars

\* The replier under a supervisor that starts it again when it ends.  The
\* loop never waits for anything but the broker, so each of its steps is
\* taken once it is possible.
NextReplierRestart ==
    \/ NextReplier
    \/ replier_restart

SpecReplierFair ==
    /\ Init /\ [][NextReplierRestart]_vars
    /\ WF_vars(replier_xreadgroup) /\ WF_vars(replier_dispatch)
    /\ WF_vars(replier_xack) /\ WF_vars(replier_restart)

\* Delivery: an agent sends targeted messages while the recipient's
\* listen_to_my_inbox runs.
NextDeliver ==
    \/ \E a \in Agents \ {Listener} : send_targeted_message(a)
    \/ \E a \in Agents \ {Listener} : send_message_set(a)
    \/ \E a \in Agents \ {Listener} : send_message_xadd(a)
    \/ listen_to_my_inbox
    \/ inbox_issue
    \/ inbox_xread
    \/ inbox_process

SpecDeliver == Init /\ [][NextDeliver]_vars

\* Direct messaging: an agent sends messages of every type and the owner of
\* an inbox reads it.
NextDirect ==
    \/ send_message(DirectSender)
    \/ read_agent_inbox(InboxOwner)

SpecDirect == Init /\ [][NextDirect]_vars

\* Request/response: one requester waits while others request and respond.
NextWait ==
    \/ \E a \in Requesters : send_request(a)
    \/ send_response(Responder)
    \/ wait_for_response
    \/ wait_check
    \/ wait_xread
    \/ MsTick

SpecWait == Init /\ [][NextWait]_vars

\* Rate limit: one agent sends numbered broadcasts past the limit with a
\* healthy broker, and may call check_rate_limit, while a window goes by.
NextRate ==
    \/ send_broadcast_numbered(RateAgent)
    \/ send_message_set(RateAgent)
    \/ send_message_xadd(RateAgent)
    \/ check_rate_limit(RateAgent)
    \/ check_rate_limit_expire(RateAgent)
    \/ WindowTick

SpecRate == Init /\ [][NextRate]_vars

\* The same, with the process possibly stopping inside check_rate_limit.
NextRateStop ==
    \/ NextRate
    \/ check_rate_limit_stops(RateAgent)

SpecRateStop == Init /\ [][NextRateStop]_vars

\* Presence: agents start, refresh their record on a timer and stop, while
\* get_online_agents reads the records and time passes.
NextPresence ==
    \/ \E a \in Callers : construct(a)
    \/ \E a \in Callers : announce_presence(a)
    \/ \E a \in Callers : process_ends(a)
    \/ online_scan
    \/ online_get
    \/ PresenceTick

SpecPresence == Init /\ [][NextPresence]_vars

\* The direct-mode listeners: DevCommV2.listen or listen_to_my_inbox reads
\* its channels while producers append to them and a stop signal may be
\* raised.
NextListen ==
    \/ stream_xadd
    \/ listen
    \/ listen_connect
    \/ listen_xread
    \/ listen_process
    \/ channel_xadd
    \/ listen_to_my_inbox
    \/ inbox_issue
    \/ inbox_xread
    \/ inbox_process
    \/ raise_stop

SpecListen == Init /\ [][NextListen]_vars

\* ------------------------------------------------------------------ claims
CallsOf(ops) == {k \in DOMAIN calls : calls[k].op \in ops}

\* Call i holds the lock of its task at time t.
HeldAt(i, t) ==
    calls[i].acquired /\ calls[i].at <= t /\ t < calls[i].at + calls[i].dur

\* The entries call k appended to channel ch.
AppendedBy(k, ch) == {n \in DOMAIN streams[ch] : streams[ch][n].call = k}

ChanOf(k) == IF calls[k].op = "targeted" THEN Inbox(calls[k].to) ELSE General

SameSend(i, j) ==
    /\ calls[i].op = calls[j].op /\ calls[i].agent = calls[j].agent
    /\ calls[i].to = calls[j].to /\ calls[i].body = calls[j].body

\* C2 (as claimed): of two sends of the same content by one agent less than a
\* dedup window apart, exactly one is appended to the channel.
C2_DedupWithinWindow ==
    \A i, j \in CallsOf({"broadcast", "targeted"}) :
        (/\ i < j /\ SameSend(i, j)
         /\ calls[i].status = "ret" /\ calls[j].status = "ret"
         /\ calls[j].at - calls[i].at < DEDUP_TTL)
            => (AppendedBy(i, ChanOf(i)) = {}) # (AppendedBy(j, ChanOf(j)) = {})

\* C5 (as claimed): a returned send_targeted_message appended exactly one entry
\* to the recipient's inbox and exactly one copy=true entry to the broadcast
\* channel, and nothing to another inbox; send_broadcast appended to the
\* broadcast channel only.
OnlyRoutes(k) ==
    /\ \A r \in Agents :
        (calls[k].op = "broadcast" \/ r # calls[k].to) => AppendedBy(k, Inbox(r)) = {}
    /\ \A n \in AppendedBy(k, General) :
        streams[General][n].msg.copy = (calls[k].op = "targeted")
    /\ \A r \in Agents : \A n \in AppendedBy(k, Inbox(r)) : ~streams[Inbox(r)][n].msg.copy

BackupLinesOf(k) == {n \in DOMAIN backup : backup[n].call = k}

V2EntriesOf(k) == {n \in DOMAIN streams[STREAM_KEY] : streams[STREAM_KEY][n].call = k}

V2Sends == {k \in DOMAIN sends : sends[k].status # "invalid"}

V2Done(k) == sends[k].status \in {"ret", "raised"}

\* What C3 and its amendment share: at most RETRY appends are attempted, the
\* loop stops at the first attempt that succeeds and returns that attempt's
\* id with nothing written to the fallback file, and the send raises exactly
\* when RETRY attempts have failed.
RetryLoop(k) ==
    /\ sends[k].xadds <= RETRY /\ sends[k].failed <= RETRY
    /\ sends[k].xadds <= sends[k].failed + 1
    /\ sends[k].status = "ret" =>
         /\ sends[k].xadds = sends[k].failed + 1
         /\ sends[k].result # <<>>
         /\ sends[k].result[1] = "id" =>
              /\ sends[k].result[2] \in V2EntriesOf(k)
              /\ \A n \in V2EntriesOf(k) : n <= sends[k].result[2]
         /\ BackupLinesOf(k) = {}
    /\ sends[k].status = "raised" <=> (V2Done(k) /\ sends[k].failed = RETRY)
    /\ ~V2Done(k) => BackupLinesOf(k) = {}

C4_UnreachableFallsBack ==
    \A k \in V2Sends :
        /\ (V2Done(k) /\ sends[k].mocked >= 1 /\ sends[k].mocked = sends[k].xadds) =>
             /\ sends[k].status = "raised"
             /\ \E n \in BackupLinesOf(k) : backup[n].data = sends[k].msg[1]
        /\ sends[k].status = "ret" => V2EntriesOf(k) # {}

\* Positions in the replier's log of the events ev about entry id.
LogOf(ev, id) == {j \in DOMAIN rlog : rlog[j].ev = ev /\ rlog[j].id = id}

ReadIds == {rlog[j].id : j \in {i \in DOMAIN rlog : rlog[i].ev = "read"}}

\* C6: for every entry the replier reads it sends exactly one reply, picked by
\* the entry's action (hello_world, lock_shell and unlock_shell have their own
\* reply, every other action gets unhandled_action), then acknowledges the
\* entry exactly once; never an acknowledgement before the reply was sent.
C6_ReplyThenAck ==
    \A id \in ReadIds :
        LET replies == LogOf("reply", id)
            acks == LogOf("ack", id)
            action == bus[STREAM_NAME][id].action
        IN /\ Cardinality(replies) <= 1
           /\ Cardinality(acks) <= 1
           /\ \A r \in replies :
                rlog[r].action = "unhandled_action"
                    <=> action \notin {"hello_world", "lock_shell", "unlock_shell"}
           /\ \A j \in acks : \E r \in replies : r < j

WaitReturned == wt.pc = "returned"

\* C7: wait_for_response(c) returns only a message of type response or direct
\* whose correlation id is c, whatever else is in the stream and in whatever
\* order; it never returns the request itself.
C7_ReturnsOnlyMatching ==
    (WaitReturned /\ wt.result # <<>>) =>
        LET r == wt.result[1]
        IN /\ r.id \in DOMAIN bus[STREAM_NAME]
           /\ r.data = bus[STREAM_NAME][r.id]
           /\ r.data.message_type \in {"response", "direct"}
           /\ r.data.correlation_id = wt.cid
           /\ wt.req # <<STREAM_NAME, r.id>>
           /\ r.data.sender # Waiter

\* A response is returned although the request and a response with another
\* correlation id precede it in the stream.
C7_Witness ==
    /\ WaitReturned /\ wt.result # <<>>
    /\ wt.req # <<>> /\ wt.req[1] = STREAM_NAME /\ wt.req[2] < wt.result[1].id
    /\ \E i \in 1..(wt.result[1].id - 1) :
          /\ bus[STREAM_NAME][i].message_type = "response"
          /\ bus[STREAM_NAME][i].correlation_id # wt.cid

\* The replies to the waiting requester's request: entries of type response
\* or direct with its correlation id, on the shared stream or in its inbox.
RepliesToWaiter ==
    {e \in {bus[STREAM_NAME][i] : i \in DOMAIN bus[STREAM_NAME]}
            \cup {bus[AgentInbox(Waiter)][i] : i \in DOMAIN bus[AgentInbox(Waiter)]} :
        /\ e.message_type \in {"response", "direct"}
        /\ e.correlation_id = wt.cid
        /\ e.sender # Waiter}

\* C8: a reply with the request's correlation id sent before the timeout
\* elapses, as a broadcast response or as a direct reply to the requester,
\* is what the wait returns: the wait does not return None.
C8_ReplyBeforeTimeoutReturned ==
    (WaitReturned /\ wt.result = <<>>) =>
        \A e \in RepliesToWaiter : e.timestamp >= wt.start + wt.timeout * 1000

WindowOf(t) == t \div RATE_WINDOW

\* The finished sends of agent a, and the rank of send k among the agent's
\* sends of the same window.
SendsOf(a) ==
    {k \in DOMAIN calls : calls[k].agent = a /\ calls[k].op \in {"broadcast", "targeted"}}

RankInWindow(a, k) ==
    Cardinality({i \in SendsOf(a) : i <= k /\ WindowOf(calls[i].at) = WindowOf(calls[k].at)})

\* C10: per agent the first 100 sends of a window succeed, the 101st send of
\* the same window is rejected (raises, nothing appended), and sends of the
\* next window succeed again.  Stated of the latest call in each state, which
\* every call once is.
C10_RateLimited ==
    \A k \in DOMAIN calls :
        (k = Len(calls) /\ k \in SendsOf(calls[k].agent) /\ calls[k].status # "run") =>
            LET rank == RankInWindow(calls[k].agent, k)
            IN /\ rank <= RATE_LIMIT =>
                    calls[k].status = "ret" /\ AppendedBy(k, General) # {}
               /\ rank = RATE_LIMIT + 1 =>
                    calls[k].status = "raised" /\ AppendedBy(k, General) = {}

\* C11: from construction until the process ends the presence record is
\* re-announced every 4 minutes, before its 5-minute TTL lapses: a live agent
\* has a live record and a refresh scheduled within 4 minutes of its last
\* announce, also after a refresh attempt failed.
C11_PresenceContinuous ==
    \A a \in Callers :
        proc[a].state = "alive" =>
            /\ PresenceLive(a)
            /\ proc[a].timer # NoTimer
            /\ proc[a].timer <= proc[a].last_announce + PRESENCE_REFRESH

\* C12: no leave record is written: the record of a stopped agent stays until
\* its TTL runs out and is gone one TTL after the agent's last announce; the
\* agents get_online_agents returns are those whose key existed when it was
\* read with GET, a key that expired after the scan being left out.
C12_AbsenceByExpiry ==
    /\ \A a \in Callers :
          proc[a].state = "stopped" =>
              (PresenceLive(a) <=> now < proc[a].last_announce + PRESENCE_TTL)
    /\ \A i \in DOMAIN oaret : \A r \in oaret[i].agents :
          /\ r.read_at < r.exp
          /\ r.agent = r.key
          /\ r.key \in oaret[i].scanned
    /\ \A r \in oa.agents : r.read_at < r.exp

\* get_online_agents returned one agent and left out another whose key
\* expired between the scan and the GET, its process having stopped.
C12_Witness ==
    \E i \in DOMAIN oaret :
        /\ Cardinality(oaret[i].scanned) = 2
        /\ Cardinality(oaret[i].agents) = 1
        /\ \E a \in oaret[i].scanned :
              proc[a].state = "stopped" /\ ~PresenceLive(a)

\* C13: a claim_task that acquired the lock appends a task_claimed event
\* naming the task and the owner to the broadcast channel and returns true,
\* also when the broadcast append fails; a claim that did not acquire the
\* lock appends no task_claimed event.
C13_AcquiredIsBroadcast ==
    /\ \A k \in CallsOf({"claim"}) :
          (calls[k].acquired /\ calls[k].status # "run") =>
              /\ calls[k].status = "ret"
              /\ \E n \in AppendedBy(k, General) :
                    /\ streams[General][n].msg.type = "task_claimed"
                    /\ streams[General][n].msg.task_id = calls[k].task
                    /\ streams[General][n].msg.from = calls[k].agent
    /\ \A n \in DOMAIN streams[General] :
          streams[General][n].msg.type = "task_claimed" =>
              /\ streams[General][n].call \in CallsOf({"claim"})
              /\ calls[streams[General][n].call].acquired

\* C14: every claim_task that returns false reports the owner holding the
\* lock, in every interleaving of the failed SET NX, the GET and the expiry
\* of the lock: the owner reported is one that acquired the task's lock and
\* held it when the losing SET NX was made.
C14_LoserReportsOwner ==
    \A k \in CallsOf({"claim"}) :
        (calls[k].lost /\ calls[k].status = "ret") =>
            /\ calls[k].reported # <<>>
            /\ \E i \in CallsOf({"claim"}) :
                  /\ calls[i].acquired
                  /\ calls[i].agent = calls[k].reported[1]
                  /\ calls[i].task = calls[k].task

\* The faults of a message: subject longer than 100 characters, more than
\* 4 KB serialized, sender, type or body missing, priority outside the enum.
Malformed(m) ==
    \/ m.subject_len > 100
    \/ m.size > 4096
    \/ m.sender = "" \/ m.type = "" \/ m.body = ""
    \/ m.priority \notin {"low", "normal", "high", "critical"}

\* C15: DevCommV2.send of a message that fails validation raises a validation
\* error with no append attempt, no retry and no fallback write: nothing of
\* that send is in the broker log or in the fallback file.
C15_InvalidNotSent ==
    \A k \in DOMAIN sends :
        Malformed(sends[k].in) =>
            /\ sends[k].status = "invalid"
            /\ sends[k].xadds = 0 /\ sends[k].failed = 0 /\ sends[k].mocked = 0
            /\ V2EntriesOf(k) = {}
            /\ BackupLinesOf(k) = {}
            /\ snd.call # k

\* A malformed message was rejected after a valid one had been appended.
C15_Witness ==
    \E i, j \in DOMAIN sends :
        /\ i < j
        /\ ~Malformed(sends[i].in) /\ V2EntriesOf(i) # {}
        /\ Malformed(sends[j].in) /\ sends[j].status = "invalid"
        /\ Len(streams[STREAM_KEY]) = 1 /\ backup = <<>>

\* C16: no adapter error (a failed read, a failed reply append, a failed
\* acknowledge) and no handler exception terminates a listener loop: the
\* direct-mode listener and the consumer-group replier keep reading.
C16_LoopsSurviveErrors ==
    /\ rp.pc # "crashed"
    /\ ls.pc \in {"off", "connect", "xread", "process"}

\* C17: a listener checks a stop flag between iterations: once the stop
\* signal is raised, the running listener issues at most one more blocking
\* read before it exits; without the signal it never exits.
C17_StopEndsListener ==
    /\ stop.raised => stop.reads <= 1
    /\ ~stop.raised => ls.pc \in {"off", "connect", "xread", "process"}

\* The handler invocations of each listener, in the order they were made.
HandledInOrder ==
    /\ \A i, j \in DOMAIN ls.handled : i < j => ls.handled[i] <= ls.handled[j]
    /\ \A i, j \in DOMAIN il.handled :
        (i < j /\ il.handled[i][1] = il.handled[j][1]) => il.handled[i][2] <= il.handled[j][2]

CursorForward ==
    /\ ls'.last_id >= ls.last_id
    /\ \A c \in InboxChannels : il'.last_ids[c] >= il.last_ids[c]

Undecodable(m) == streams[STREAM_KEY][m].data = NotJson

Deliverable(n) ==
    /\ ~Undecodable(n)
    /\ ls.filter = "" \/ streams[STREAM_KEY][n].data.in.sender = ls.filter

Passed(n) == \E i \in DOMAIN ls.handled : ls.handled[i] = n

\* Once its batch is done the next read starts after the undecodable entry
\* m: from the end of the stream, or from a cursor at or after m.
CursorPast(m) == ls.pc = "connect" => (ls.last_id = Dollar \/ ls.last_id >= m)

\* Entry n was read and its turn in the batch is over, or the read now
\* issued starts after it: the listener will not come to n again unless it
\* reads from an older cursor.
Behind(n) == n \in ls.done \/ (ls.pc = "xread" /\ n <= ls.from)

\* C19: an undecodable entry read by the direct-mode listener is skipped
\* and the cursor advances past it; every well-formed entry appended after
\* it that the listener's sender filter admits is passed to the handler:
\* the listener never leaves such an entry behind unhandled.
C19_UndecodableSkipped ==
    \A m \in ls.done :
        Undecodable(m) =>
            /\ CursorPast(m)
            /\ \A n \in (m + 1)..Len(streams[STREAM_KEY]) :
                (Deliverable(n) /\ Behind(n)) => Passed(n)

\* C20: an entry whose processing raised before its acknowledgement stays
\* unacknowledged in the consumer group and is eventually delivered again,
\* by a later read or after the replier restarts, so that no entry is left
\* unprocessed for ever: a pending entry of a replier that ended is
\* eventually acknowledged (as long as the replier may still read: a run
\* that used up MaxRead says nothing).
C20_PendingRedelivered ==
    \A id \in 1..MaxBusLen :
        (rp.pc = "crashed" /\ id \in grp.pel) ~> (id \notin grp.pel \/ grp.last >= MaxRead)

\* C21: every message sent with a thread_id set, broadcast or targeted, is
\* also appended to that thread's own log, whoever its recipient is: each
\* entry of a call that returned and carries a thread_id has an entry of
\* the same call in the log of its thread.
C21_ThreadLogComplete ==
    \A c \in Channels : \A i \in DOMAIN streams[c] :
        LET e == streams[c][i]
        IN (e.msg.thread_id # "" /\ calls[e.call].status = "ret")
            => \E j \in DOMAIN streams[ThreadLog(e.msg.thread_id)] :
                 streams[ThreadLog(e.msg.thread_id)][j].call = e.call

\* C22: a message sent with ttl = t has the expiry applied to its appended
\* entry: once t seconds have passed since the append, a read or a history
\* query of the stream no longer returns the entry; entries of messages
\* without ttl are not expired by the sender.
C22_TtlExpiresEntry ==
    \A n \in DOMAIN streams[STREAM_KEY] :
        LET e == streams[STREAM_KEY][n]
            k == e.call
            t == e.data.in.ttl
        IN /\ (t # 0 /\ sends[k].status = "ret" /\ now >= sends[k].appended_at[1] + t)
                => \A i \in DOMAIN XRange(STREAM_KEY) : XRange(STREAM_KEY)[i] # e
           /\ t = 0 => \E i \in DOMAIN XRange(STREAM_KEY) : XRange(STREAM_KEY)[i] = e

\* C23: any two messages sent by the same sender carry different ids, also
\* when both sends fall into the same clock millisecond.
C23_IdsUniquePerSender ==
    \A i, j \in V2Sends :
        (i < j /\ sends[i].in.sender = sends[j].in.sender)
            => sends[i].msg[1].id # sends[j].msg[1].id

\* The stream an entry belongs on by its fields.
RoutedTo(m) ==
    IF m.message_type = "direct" /\ m.reply_to # "" THEN AgentInbox(m.reply_to)
    ELSE STREAM_NAME

\* A step appends at most one entry, to the stream its fields name, and
\* changes no other stream.
RouteStep ==
    \A s \in BusStreams :
        \/ bus'[s] = bus[s]
        \/ /\ Len(bus'[s]) = Len(bus[s]) + 1
           /\ SubSeq(bus'[s], 1, Len(bus[s])) = bus[s]
           /\ RoutedTo(bus'[s][Len(bus'[s])]) = s
           /\ \A t \in BusStreams \ {s} : bus'[t] = bus[t]

\* A read of the inbox with the default arguments that did not fail returned
\* every entry of the inbox.
ReadReturnsAll ==
    (ib.ok /\ ib.count = READ_INBOX_COUNT /\ ib.last_id = 0)
        => \A id \in 1..ib.len : \E i \in DOMAIN ib.result : ib.result[i] = id

\* A read of the inbox that did not fail returned the first count entries
\* after last_id, in order, and nothing else.
ReadReturnsPage ==
    ib.ok =>
        /\ Len(ib.result) = (IF ib.len - ib.last_id < ib.count THEN ib.len - ib.last_id
                             ELSE ib.count)
        /\ \A i \in DOMAIN ib.result : ib.result[i] = ib.last_id + i

\* C24: send_message with message_type direct and reply_to = T appends the
\* message to agent_inbox:T and to no other channel, and read_agent_inbox(T)
\* then returns it; a message of any other type, or without reply_to, is
\* appended to the shared stream only.
C24_DirectToInboxAndRead == [][RouteStep /\ ReadReturnsAll']_vars

\* C24 as amended: the routing as stated; read_agent_inbox(T, count,
\* last_id) returns the first count entries of T's inbox after last_id, so
\* it returns the message when fewer than count entries after last_id
\* precede it (count is 5 and last_id the start of the inbox by default),
\* and returns nothing when the read fails.
C24_DirectToInboxAndPage == [][RouteStep /\ ReadReturnsPage']_vars

\* The inbox holds more direct messages than one default read returns, the
\* shared stream holds the others, and a read of the inbox returned a page.
C24_Witness ==
    /\ Len(bus[AgentInbox(InboxOwner)]) > READ_INBOX_COUNT
    /\ bus[STREAM_NAME] # <<>>
    /\ ib.ok /\ ib.count = READ_INBOX_COUNT /\ Len(ib.result) = READ_INBOX_COUNT
    /\ ib.len > READ_INBOX_COUNT

\* C25: every entry DevCommV2.send appends to the broker log has a total
\* serialized size of at most 4096 bytes, the id, timestamp, version and
\* attempt fields stamped after validation included.
C25_AppendedWithinMaxSize ==
    \A n \in DOMAIN streams[STREAM_KEY] :
        StampedSize(streams[STREAM_KEY][n].data) <= MAX_MESSAGE_SIZE

\* C26: every rate-limit counter expires at the end of its window: a counter
\* key that exists has an expiry, also after the agent's process stopped
\* between the increment and the call that sets the expiry (the moment
\* between the two calls of a running check apart).
C26_CounterHasExpiry ==
    \A a \in Callers :
        (rate[a] # <<>> /\ pc[a] # "rl_expire") => rate[a][1].exp # NoExpiry

\* C27: one DevCommV2.send call appends at most one entry to the stream and
\* its outcomes exclude each other: when it raises after the retries, no
\* entry of the message is in the stream and the fallback file holds it,
\* also for a message with a ttl whose expire call fails after the append
\* succeeded.
C27_AtMostOneEntry ==
    \A k \in V2Sends :
        /\ Cardinality(V2EntriesOf(k)) <= 1
        /\ sends[k].status = "raised" =>
             /\ V2EntriesOf(k) = {}
             /\ BackupLinesOf(k) # {}

InboxPassed(c, id) == \E i \in DOMAIN il.handled : il.handled[i] = <<c, id>>

\* C28: every entry appended to the agent's inbox or to the broadcast
\* channel after listen_to_my_inbox started is passed to the callback
\* exactly once: none is passed twice, also when a callback raises, and none
\* is left behind the position the next read starts from without having
\* been passed, whenever it was appended.
C28_ExactlyOnce ==
    /\ \A i, j \in DOMAIN il.handled : i < j => il.handled[i] # il.handled[j]
    /\ il.pc = "xread" =>
         \A c \in InboxChannels : \A id \in 1..il.from[c] : InboxPassed(c, id)

\* C29: the replier's own replies trigger no further replies: no reply is
\* generated for an entry (hello_reply, lock_ack, unlock_ack,
\* unhandled_action) that the replier itself appended, so that the replier
\* sends one reply per entry of another agent and the stream then stops
\* growing.
C29_NoReplyToOwnReply ==
    \A id \in DOMAIN bus[STREAM_NAME] :
        bus[STREAM_NAME][id].sender = CONSUMER_NAME => LogOf("reply", id) = {}

\* The callback invocations made for the entries of call k.
InvocationsOf(k) ==
    {i \in DOMAIN il.handled : streams[il.handled[i][1]][il.handled[i][2]].call = k}

\* The entries of call k all lie before the position the read now issued
\* starts from.
AllBehind(k) ==
    /\ il.pc = "xread"
    /\ \A c \in InboxChannels : \A n \in DOMAIN streams[c] :
        streams[c][n].call = k => n <= il.from[c]

\* C30: a targeted message sent to agent B makes B's listener invoke its
\* callback exactly once for the message, although the message is stored in
\* B's inbox and, as a copy, in the broadcast channel B's listener reads too.
C30_TargetedDeliveredOnce ==
    \A k \in DOMAIN calls :
        (calls[k].op = "targeted" /\ calls[k].to = Listener /\ calls[k].status = "ret")
            => /\ Cardinality(InvocationsOf(k)) <= 1
               /\ AllBehind(k) => Cardinality(InvocationsOf(k)) = 1

====
